---- MODULE Spec2Model ----
(***************************************************************************)
(* Geopolitical market analyser: the RealTimeAnalysis page (its two        *)
(* collaborator fetches and the analysis request), the risk-level          *)
(* classifiers of the Dashboard and RiskAssessment pages, and the region   *)
(* risk scorer of the documented risk model; the Dashboard,                *)
(* RiskAssessment, MarketImpact and Settings pages, the api instance with  *)
(* its interceptors, the JSON export, and the sentiment aggregator, sector *)
(* scorer and trend classifier of the analysis engine.                     *)
(*                                                                         *)
(* Numbers: risk scores are integers in thousandths (0.3 is 300), raw      *)
(* factor scores are integers in tenths (0.9 is 9) and weights are         *)
(* integers in hundredths (0.25 is 25), so weight * raw is in thousandths. *)
(***************************************************************************)
EXTENDS Integers, Sequences, FiniteSets, TLC

\* ------------------------------------------------------------------------
\* Bounds of the model
\* ------------------------------------------------------------------------
MaxFetch == 2      \* fetchData calls of one page visit
MaxGen == 1        \* generateAnalysis calls of one page visit
RawGrid == 3       \* raw factor scores are drawn from RawGrid + 1 grid points
WeightDev == 3     \* weights are moved by up to WeightDev millionths
MaxDashFetch == 2  \* fetchDashboardData calls of one page visit
MaxRiskFetch == 3  \* fetchRiskData calls of one page visit
MaxRequest == 2    \* regions named by one scoring request
MaxItems == 3      \* news items handed to the sentiment aggregator
MaxSectors == 3    \* sectors of one impact request
MaxSnapshots == 3  \* score snapshots handed to the trend classifier
MaxApiCalls == 3   \* requests made through the api instance
MaxInsights == 2   \* key insights of one analysis
MaxVisits == 2     \* loads of the Settings page

VARIABLES
    mounted,              \* the mount effect of RealTimeAnalysis has run
    news,                 \* RealTimeAnalysis state: news
    marketData,           \* RealTimeAnalysis state: marketData
    analysis,             \* RealTimeAnalysis state: analysis
    loading,              \* RealTimeAnalysis state: loading
    selectedRegions,      \* RealTimeAnalysis state: selectedRegions
    selectedSectors,      \* RealTimeAnalysis state: selectedSectors
    fetches,              \* the fetchData calls: call id -> its position and promises
    analyses,             \* the generateAnalysis calls: call id -> position and promise
    risk,                 \* the score handed to the risk classifiers (thousandths)
    shown,                \* what the pages render for risk
    rawScores,            \* factor -> raw score (tenths) handed to the scorer
    profile,              \* the RegionRiskProfile the scorer returned
    weightsIn,            \* the weight set handed to the scorer constructor (millionths)
    scorer,               \* the result of constructing the scorer
    dashMounted,          \* the mount effect of Dashboard has run
    overview,             \* Dashboard state: overview
    metrics,              \* Dashboard state: metrics
    activity,             \* Dashboard state: activity
    dashLoading,          \* Dashboard state: loading
    dashCalls,            \* the fetchDashboardData calls
    riskMounted,          \* the mount effect of RiskAssessment has run
    riskData,             \* RiskAssessment state: riskData
    riskSelectedRegions,  \* RiskAssessment state: selectedRegions
    riskLoading,          \* RiskAssessment state: loading
    riskCalls,            \* the fetchRiskData calls
    reqRegions,           \* the regions of a scoring request, as requested
    reqRaw,               \* region -> factor -> raw score (tenths) of the request
    assessment,           \* the result of scoring the request
    items,                \* the news items handed to the sentiment aggregator
    aggregate,            \* the aggregate of items
    reordered,            \* a reordering of items and its aggregate
    impact,               \* the impact score of a sector card (thousandths)
    impactShown,          \* what MarketImpact renders for impact
    sectorVolumes,        \* the volumes of the requested sectors
    sectorResult,         \* the result of scoring the sectors
    snapshots,            \* score snapshots, oldest first
    trendThreshold,       \* the threshold of the trend classifier
    trend,                \* the label the trend classifier returned
    authToken,            \* localStorage item 'authToken'
    location,             \* window.location.href (path)
    apiCalls,             \* the requests made through api
    exportSource,         \* the object handed to the export
    exportFile,           \* the exported JSON file
    imported,             \* the value parsed from the file
    settings,             \* Settings state: settings
    stored,               \* localStorage item 'gma-settings'
    settingsVisits        \* loads of the Settings page so far

pageVars == <<mounted, news, marketData, analysis, loading,
              selectedRegions, selectedSectors, fetches, analyses>>
levelVars == <<risk, shown>>
scorerVars == <<rawScores, profile>>
configVars == <<weightsIn, scorer>>
dashVars == <<dashMounted, overview, metrics, activity, dashLoading,
              dashCalls>>
riskPageVars == <<riskMounted, riskData, riskSelectedRegions, riskLoading,
                  riskCalls>>
assessVars == <<reqRegions, reqRaw, assessment>>
sentimentVars == <<items, aggregate, reordered>>
impactVars == <<impact, impactShown>>
sectorVars == <<sectorVolumes, sectorResult>>
trendVars == <<snapshots, trendThreshold, trend>>
authVars == <<authToken, location, apiCalls>>
exportVars == <<exportSource, exportFile, imported>>
settingsVars == <<settings, stored, settingsVisits>>
vars == <<mounted, news, marketData, analysis, loading, selectedRegions,
          selectedSectors, fetches, analyses, risk, shown, rawScores,
          profile, weightsIn, scorer, dashMounted, overview, metrics,
          activity, dashLoading, dashCalls, riskMounted, riskData,
          riskSelectedRegions, riskLoading, riskCalls, reqRegions, reqRaw,
          assessment, items, aggregate, reordered, impact, impactShown,
          sectorVolumes, sectorResult, snapshots, trendThreshold, trend,
          authToken, location, apiCalls, exportSource, exportFile,
          imported, settings, stored, settingsVisits>>

\* the variables outside each part of the model
notPage == <<levelVars, scorerVars, configVars, dashVars, riskPageVars,
             assessVars, sentimentVars, impactVars, sectorVars, trendVars,
             authVars, exportVars, settingsVars>>
notLevel == <<pageVars, scorerVars, configVars, dashVars, riskPageVars,
              assessVars, sentimentVars, impactVars, sectorVars, trendVars,
              authVars, exportVars, settingsVars>>
notScorer == <<pageVars, levelVars, configVars, dashVars, riskPageVars,
               assessVars, sentimentVars, impactVars, sectorVars,
               trendVars, authVars, exportVars, settingsVars>>
notConfig == <<pageVars, levelVars, scorerVars, dashVars, riskPageVars,
               assessVars, sentimentVars, impactVars, sectorVars,
               trendVars, authVars, exportVars, settingsVars>>
notDash == <<pageVars, levelVars, scorerVars, configVars, riskPageVars,
             assessVars, sentimentVars, impactVars, sectorVars, trendVars,
             authVars, exportVars, settingsVars>>
notRiskPage == <<pageVars, levelVars, scorerVars, configVars, dashVars,
                 assessVars, sentimentVars, impactVars, sectorVars,
                 trendVars, authVars, exportVars, settingsVars>>
notAssess == <<pageVars, levelVars, scorerVars, configVars, dashVars,
               riskPageVars, sentimentVars, impactVars, sectorVars,
               trendVars, authVars, exportVars, settingsVars>>
notSentiment == <<pageVars, levelVars, scorerVars, configVars, dashVars,
                  riskPageVars, assessVars, impactVars, sectorVars,
                  trendVars, authVars, exportVars, settingsVars>>
notImpact == <<pageVars, levelVars, scorerVars, configVars, dashVars,
               riskPageVars, assessVars, sentimentVars, sectorVars,
               trendVars, authVars, exportVars, settingsVars>>
notSector == <<pageVars, levelVars, scorerVars, configVars, dashVars,
               riskPageVars, assessVars, sentimentVars, impactVars,
               trendVars, authVars, exportVars, settingsVars>>
notTrend == <<pageVars, levelVars, scorerVars, configVars, dashVars,
              riskPageVars, assessVars, sentimentVars, impactVars,
              sectorVars, authVars, exportVars, settingsVars>>
notAuth == <<pageVars, levelVars, scorerVars, configVars, dashVars,
             riskPageVars, assessVars, sentimentVars, impactVars,
             sectorVars, trendVars, exportVars, settingsVars>>
notExport == <<pageVars, levelVars, scorerVars, configVars, dashVars,
               riskPageVars, assessVars, sentimentVars, impactVars,
               sectorVars, trendVars, authVars, settingsVars>>
notSettings == <<pageVars, levelVars, scorerVars, configVars, dashVars,
                 riskPageVars, assessVars, sentimentVars, impactVars,
                 sectorVars, trendVars, authVars, exportVars>>


\* ------------------------------------------------------------------------
\* RealTimeAnalysis: data
\* ------------------------------------------------------------------------
regions == <<"North America", "Europe", "Asia-Pacific",
             "Middle East", "Africa", "Latin America">>
sectors == <<"Technology", "Energy", "Finance",
             "Healthcare", "Manufacturing", "Consumer Goods">>

\* the checkboxes the user operates in the model
ToggledRegions == {"Middle East"}
ToggledSectors == {"Energy"}

FetchIds == 1..MaxFetch
GenIds == 1..MaxGen

\* String.prototype.toUpperCase on the sector names
toUpperCase(s) ==
    CASE s = "Technology" -> "TECHNOLOGY"
      [] s = "Energy" -> "ENERGY"
      [] s = "Finance" -> "FINANCE"
      [] s = "Healthcare" -> "HEALTHCARE"
      [] s = "Manufacturing" -> "MANUFACTURING"
      [] s = "Consumer Goods" -> "CONSUMER GOODS"

\* Array.prototype.map(s => s.toUpperCase())
RECURSIVE MapUpper(_)
MapUpper(seq) ==
    IF seq = <<>> THEN <<>>
    ELSE <<toUpperCase(Head(seq))>> \o MapUpper(Tail(seq))

\* Array.prototype.includes
Includes(seq, x) == \E i \in 1..Len(seq) : seq[i] = x

\* Array.prototype.filter(r => r !== x)
RECURSIVE FilterOut(_, _)
FilterOut(seq, x) ==
    IF seq = <<>> THEN <<>>
    ELSE IF Head(seq) = x THEN FilterOut(Tail(seq), x)
    ELSE <<Head(seq)>> \o FilterOut(Tail(seq), x)

\* Values of the news / marketData arrays.  A list is described by where it
\* came from and by the query it answers.
EmptyList == [kind |-> "empty", query |-> <<>>]
MockNews == [kind |-> "mock", query |-> <<>>]
MockMarketData == [kind |-> "mock", query |-> <<>>]
ServerList(query) == [kind |-> "server", query |-> query]

\* Values of the analysis state
NoAnalysis == [kind |-> "null"]
MockAnalysis == [kind |-> "mock", summary |-> "mock", keyInsights |-> "mock",
                 recommendations |-> "mock", riskLevel |-> "Medium"]
ServerAnalysis(newsData, mktData) ==
    [kind |-> "server", newsData |-> newsData, marketData |-> mktData]

\* A promise of an HTTP call
Pending == [status |-> "pending", body |-> "none", data |-> EmptyList]
Rejected == [status |-> "rejected", body |-> "none", data |-> EmptyList]
Fulfilled(d) == [status |-> "fulfilled", body |-> "data", data |-> d]
FulfilledNoData == [status |-> "fulfilled", body |-> "null", data |-> EmptyList]

\* res.data || []
DataOrEmpty(p) == IF p.body = "data" THEN p.data ELSE EmptyList

\* Promise.all of two promises: rejected as soon as one is rejected,
\* fulfilled once both are fulfilled
PromiseAll(p, q) ==
    IF p.status = "rejected" \/ q.status = "rejected" THEN "rejected"
    ELSE IF p.status = "fulfilled" /\ q.status = "fulfilled" THEN "fulfilled"
    ELSE "pending"

NoWrite == [written |-> FALSE]

IdleFetch == [pc |-> "idle", regions |-> <<>>, symbols |-> <<>>,
              newsP |-> Pending, marketP |-> Pending,
              result |-> "none", toast |-> "none", wrote |-> NoWrite]

IdleGen == [pc |-> "idle", regions |-> <<>>, sectors |-> <<>>,
            newsData |-> EmptyList, marketData |-> EmptyList,
            resP |-> Pending, result |-> "none", toast |-> "none",
            wrote |-> NoWrite]

\* a continuation of an async function is queued: it runs before any other event
FetchSettled(c) ==
    /\ fetches[c].pc = "awaiting"
    /\ PromiseAll(fetches[c].newsP, fetches[c].marketP) # "pending"
GenSettled(g) ==
    /\ analyses[g].pc = "awaiting"
    /\ analyses[g].resP.status # "pending"
MicrotaskPending ==
    \/ \E c \in FetchIds : FetchSettled(c)
    \/ \E g \in GenIds : GenSettled(g)

PageInit ==
    /\ mounted = FALSE
    /\ news = EmptyList
    /\ marketData = EmptyList
    /\ analysis = NoAnalysis
    /\ loading = FALSE
    /\ selectedRegions = <<"North America", "Europe", "Asia-Pacific">>
    /\ selectedSectors = <<"Technology", "Energy", "Finance">>
    /\ fetches = [c \in FetchIds |-> IdleFetch]
    /\ analyses = [g \in GenIds |-> IdleGen]

\* ------------------------------------------------------------------------
\* RealTimeAnalysis: operations
\* ------------------------------------------------------------------------
\* fetchData up to its await: setLoading(true) and the two requests are sent
\* with the selection given
StartFetch(c, regs, secs) ==
    /\ fetches[c].pc = "idle"
    /\ \A d \in FetchIds : d < c => fetches[d].pc # "idle"
    /\ loading' = TRUE
    /\ fetches' = [fetches EXCEPT ![c] =
                     [IdleFetch EXCEPT !.pc = "awaiting",
                                       !.regions = regs,
                                       !.symbols = MapUpper(secs)]]

\* useEffect(() => { fetchData(); }, [selectedRegions, selectedSectors]) on mount
MountEffect ==
    /\ ~mounted
    /\ mounted' = TRUE
    /\ StartFetch(1, selectedRegions, selectedSectors)
    /\ UNCHANGED <<news, marketData, analysis, selectedRegions,
                   selectedSectors, analyses>>

\* the Refresh button: onClick={fetchData} disabled={loading}
Refresh(c) ==
    /\ mounted /\ ~MicrotaskPending
    /\ ~loading
    /\ StartFetch(c, selectedRegions, selectedSectors)
    /\ UNCHANGED <<mounted, news, marketData, analysis, selectedRegions,
                   selectedSectors, analyses>>

\* a region checkbox changes; the effect then calls fetchData
ToggleRegion(r, c) ==
    /\ mounted /\ ~MicrotaskPending
    /\ LET sel == IF ~Includes(selectedRegions, r)
                  THEN Append(selectedRegions, r)
                  ELSE FilterOut(selectedRegions, r)
       IN /\ selectedRegions' = sel
          /\ StartFetch(c, sel, selectedSectors)
    /\ UNCHANGED <<mounted, news, marketData, analysis, selectedSectors,
                   analyses>>

\* a sector checkbox changes; the effect then calls fetchData
ToggleSector(s, c) ==
    /\ mounted /\ ~MicrotaskPending
    /\ LET sel == IF ~Includes(selectedSectors, s)
                  THEN Append(selectedSectors, s)
                  ELSE FilterOut(selectedSectors, s)
       IN /\ selectedSectors' = sel
          /\ StartFetch(c, selectedRegions, sel)
    /\ UNCHANGED <<mounted, news, marketData, analysis, selectedRegions,
                   analyses>>

\* the outcomes of one HTTP call answering query q
Outcomes(q) == {Fulfilled(ServerList(q)), FulfilledNoData, Rejected}

\* newsAPI.getLatestNews(selectedRegions) settles
NewsSettles(c) ==
    /\ ~MicrotaskPending
    /\ fetches[c].pc \in {"awaiting", "done"}
    /\ fetches[c].newsP.status = "pending"
    /\ \E o \in Outcomes(fetches[c].regions) :
          fetches' = [fetches EXCEPT ![c].newsP = o]
    /\ UNCHANGED <<mounted, news, marketData, analysis, loading,
                   selectedRegions, selectedSectors, analyses>>

\* marketAPI.getMarketData(symbols) settles
MarketSettles(c) ==
    /\ ~MicrotaskPending
    /\ fetches[c].pc \in {"awaiting", "done"}
    /\ fetches[c].marketP.status = "pending"
    /\ \E o \in Outcomes(fetches[c].symbols) :
          fetches' = [fetches EXCEPT ![c].marketP = o]
    /\ UNCHANGED <<mounted, news, marketData, analysis, loading,
                   selectedRegions, selectedSectors, analyses>>

\* fetchData after its await: the try continuation or the catch block, then
\* the finally block
FetchResume(c) ==
    /\ FetchSettled(c)
    /\ LET f == fetches[c]
           ok == PromiseAll(f.newsP, f.marketP) = "fulfilled"
           n == IF ok THEN DataOrEmpty(f.newsP) ELSE MockNews
           m == IF ok THEN DataOrEmpty(f.marketP) ELSE MockMarketData
       IN /\ news' = n
          /\ marketData' = m
          /\ loading' = FALSE
          /\ fetches' = [fetches EXCEPT
                ![c].pc = "done",
                ![c].result = "fulfilled",
                ![c].toast = IF ok THEN "none" ELSE "error",
                ![c].wrote = [written |-> TRUE, news |-> n, marketData |-> m]]
    /\ UNCHANGED <<mounted, analysis, selectedRegions, selectedSectors,
                   analyses>>

\* generateAnalysis up to its await: setLoading(true) and the request is sent
\* with the news and marketData of the page (button disabled={loading})
GenerateAnalysis(g) ==
    /\ mounted /\ ~MicrotaskPending
    /\ ~loading
    /\ analyses[g].pc = "idle"
    /\ \A h \in GenIds : h < g => analyses[h].pc # "idle"
    /\ loading' = TRUE
    /\ analyses' = [analyses EXCEPT ![g] =
                      [IdleGen EXCEPT !.pc = "awaiting",
                                      !.regions = selectedRegions,
                                      !.sectors = selectedSectors,
                                      !.newsData = news,
                                      !.marketData = marketData]]
    /\ UNCHANGED <<mounted, news, marketData, analysis, selectedRegions,
                   selectedSectors, fetches>>

\* analysisAPI.generateAnalysis(news, marketData) settles
AnalysisSettles(g) ==
    /\ ~MicrotaskPending
    /\ analyses[g].pc = "awaiting"
    /\ analyses[g].resP.status = "pending"
    /\ \E o \in {Fulfilled(ServerAnalysis(analyses[g].newsData,
                                          analyses[g].marketData)),
                  Rejected} :
          analyses' = [analyses EXCEPT ![g].resP = o]
    /\ UNCHANGED <<mounted, news, marketData, analysis, loading,
                   selectedRegions, selectedSectors, fetches>>

\* generateAnalysis after its await: the try continuation or the catch
\* block, then the finally block
GenResume(g) ==
    /\ GenSettled(g)
    /\ LET a == analyses[g]
           ok == a.resP.status = "fulfilled"
           v == IF ok THEN a.resP.data ELSE MockAnalysis
       IN /\ analysis' = v
          /\ loading' = FALSE
          /\ analyses' = [analyses EXCEPT
                ![g].pc = "done",
                ![g].result = "fulfilled",
                ![g].toast = IF ok THEN "success" ELSE "error",
                ![g].wrote = [written |-> TRUE, analysis |-> v]]
    /\ UNCHANGED <<mounted, news, marketData, selectedRegions,
                   selectedSectors, fetches>>

PageNext ==
    \/ MountEffect
    \/ \E c \in FetchIds : Refresh(c)
    \/ \E r \in ToggledRegions, c \in FetchIds : ToggleRegion(r, c)
    \/ \E s \in ToggledSectors, c \in FetchIds : ToggleSector(s, c)
    \/ \E c \in FetchIds : NewsSettles(c)
    \/ \E c \in FetchIds : MarketSettles(c)
    \/ \E c \in FetchIds : FetchResume(c)
    \/ \E g \in GenIds : GenerateAnalysis(g)
    \/ \E g \in GenIds : AnalysisSettles(g)
    \/ \E g \in GenIds : GenResume(g)

\* ------------------------------------------------------------------------
\* Risk classifiers (scores in thousandths)
\* ------------------------------------------------------------------------
\* Dashboard.getRiskColor
DashboardGetRiskColor(r) ==
    IF r < 300 THEN "text-success-600"
    ELSE IF r < 600 THEN "text-warning-600"
    ELSE "text-danger-600"

\* Dashboard.getRiskLevel
DashboardGetRiskLevel(r) ==
    IF r < 300 THEN "Low"
    ELSE IF r < 600 THEN "Medium"
    ELSE "High"

\* RiskAssessment.getRiskColor
getRiskColor(r) ==
    IF r < 300 THEN "#22c55e"
    ELSE IF r < 600 THEN "#f59e0b"
    ELSE "#ef4444"

\* RiskAssessment.getRiskLevel
getRiskLevel(r) ==
    IF r < 300 THEN "Low"
    ELSE IF r < 600 THEN "Medium"
    ELSE "High"

\* Risk Summary: the three filters of the summary cards, as the set of cards
\* that count a region of risk r
SummaryBuckets(r) ==
    (IF r < 300 THEN {"Low"} ELSE {})
    \cup (IF r >= 300 /\ r < 600 THEN {"Medium"} ELSE {})
    \cup (IF r >= 600 THEN {"High"} ELSE {})

\* DOCUMENTATION.md, Risk Levels: Low < 0.4, Medium 0.4 - 0.7, High > 0.7
DocRiskLevel(r) ==
    IF r < 400 THEN "Low"
    ELSE IF r > 700 THEN "High"
    ELSE "Medium"

\* the level a colour class stands for (success / warning / danger)
LevelOfColor(c) ==
    CASE c \in {"text-success-600", "#22c55e"} -> "Low"
      [] c \in {"text-warning-600", "#f59e0b"} -> "Medium"
      [] c \in {"text-danger-600", "#ef4444"} -> "High"

Scores == 0..1000

LevelInit == risk = 0 /\ shown = [rendered |-> FALSE]
LevelInputs == risk \in Scores /\ shown = [rendered |-> FALSE]

\* the pages render a region of risk `risk`
RenderRisk ==
    /\ ~shown.rendered
    /\ shown' = [rendered |-> TRUE,
                 dashboardLevel |-> DashboardGetRiskLevel(risk),
                 dashboardColor |-> DashboardGetRiskColor(risk),
                 level |-> getRiskLevel(risk),
                 color |-> getRiskColor(risk),
                 buckets |-> SummaryBuckets(risk)]
    /\ UNCHANGED risk

\* ------------------------------------------------------------------------
\* Region risk scorer (raw scores in tenths, weights in hundredths)
\* ------------------------------------------------------------------------
Factors == <<"political_stability", "economic_conditions",
             "diplomatic_relations", "regional_conflicts",
             "trade_relations", "regulatory_environment">>

\* weights with political stability at 35%
RiskFactorWeightsUneven ==
    [political_stability |-> 35, economic_conditions |-> 20,
     diplomatic_relations |-> 20, regional_conflicts |-> 15,
     trade_relations |-> 10, regulatory_environment |-> 10]

\* DOCUMENTATION.md, Risk Factors
RiskFactorWeights ==
    [political_stability |-> 25, economic_conditions |-> 20,
     diplomatic_relations |-> 20, regional_conflicts |-> 15,
     trade_relations |-> 10, regulatory_environment |-> 10]

FactorSet == {Factors[i] : i \in 1..Len(Factors)}

\* sum over the factors fs of weight[f] * raw[f], in thousandths
RECURSIVE WeightedSum(_, _)
WeightedSum(fs, raw) ==
    IF fs = <<>> THEN 0
    ELSE RiskFactorWeights[Head(fs)] * raw[Head(fs)] + WeightedSum(Tail(fs), raw)

Clamp(x) == IF x < 0 THEN 0 ELSE IF x > 1000 THEN 1000 ELSE x

\* a scorer that adds the raw scores without weighting or clamping them
RECURSIVE UnweightedSum(_, _)
UnweightedSum(fs, raw) ==
    IF fs = <<>> THEN 0
    ELSE 100 * raw[Head(fs)] + UnweightedSum(Tail(fs), raw)
RegionRiskScorerUnweighted(raw) == UnweightedSum(Factors, raw)

\* score = clamp(sum of weight[f] * rawScore[f])
RegionRiskScorer(raw) == Clamp(WeightedSum(Factors, raw))

\* the raw scores tried: RawGrid + 1 points of [0,1], in tenths
RawValues == {(k * 10) \div RawGrid : k \in 0..RawGrid}

\* the raw scores of the documented example
ExampleRaw ==
    [political_stability |-> 9, economic_conditions |-> 5,
     diplomatic_relations |-> 6, regional_conflicts |-> 8,
     trade_relations |-> 3, regulatory_environment |-> 4]

ScorerInit == rawScores = <<>> /\ profile = [scored |-> FALSE]
ScorerInputs ==
    /\ rawScores \in [FactorSet -> RawValues] \cup {ExampleRaw}
    /\ profile = [scored |-> FALSE]

\* one region is scored and its level is shown by RiskAssessment.getRiskLevel
ScoreRegion ==
    /\ ~profile.scored
    /\ LET sc == RegionRiskScorer(rawScores)
       IN profile' = [scored |-> TRUE, score |-> sc, level |-> getRiskLevel(sc)]
    /\ UNCHANGED rawScores


\* ------------------------------------------------------------------------
\* Construction of the region risk scorer (weights in millionths)
\* ------------------------------------------------------------------------
\* weights of hundredths in millionths
ToMillionths(w) == [f \in FactorSet |-> w[f] * 10000]

\* sum of the weights w over the factors fs
RECURSIVE WeightSum(_, _)
WeightSum(fs, w) ==
    IF fs = <<>> THEN 0 ELSE w[Head(fs)] + WeightSum(Tail(fs), w)

\* the tolerance 1e-6 of the weight sum, in millionths
WeightTolerance == 1

\* the weights sum to 1.0 within the tolerance
WeightsConform(w) ==
    LET d == WeightSum(Factors, w) - 1000000
    IN d <= WeightTolerance /\ -d <= WeightTolerance

\* the weight sets tried: the documented weights with two of them moved by
\* a few millionths or by a tenth
Deviations == (-WeightDev..WeightDev) \cup {-100000, 100000}
CandidateWeights ==
    {[ToMillionths(RiskFactorWeights) EXCEPT
         !["political_stability"] = @ + d1,
         !["regulatory_environment"] = @ + d2] : d1 \in Deviations, d2 \in Deviations}

\* constructing the scorer: validates the weights, fails with
\* ConfigurationError otherwise
ConstructScorer(w) ==
    IF WeightsConform(w) THEN [status |-> "ok", weights |-> w]
    ELSE [status |-> "ConfigurationError"]

ConfigInit == weightsIn = <<>> /\ scorer = [constructed |-> FALSE]
ConfigInputs == weightsIn \in CandidateWeights /\ scorer = [constructed |-> FALSE]

\* the scorer is constructed with weightsIn and, when that succeeded, scores
\* the example region
Construct ==
    /\ ~scorer.constructed
    /\ LET s == ConstructScorer(weightsIn)
       IN scorer' = IF s.status = "ok"
                    THEN [constructed |-> TRUE, status |-> "ok",
                          weights |-> s.weights,
                          score |-> RegionRiskScorer(ExampleRaw)]
                    ELSE [constructed |-> TRUE, status |-> s.status]
    /\ UNCHANGED weightsIn

\* ------------------------------------------------------------------------
\* Dashboard page
\* ------------------------------------------------------------------------
DashIds == 1..MaxDashFetch

\* values of the overview and metrics state
NoOverview == [kind |-> "null", riskScore |-> 0]
NoMetrics == [kind |-> "null", riskByRegion |-> <<>>]

\* the mock data of the catch block
MockOverview == [kind |-> "mock", riskScore |-> 340]
MockMetrics ==
    [kind |-> "mock",
     riskByRegion |-> <<[region |-> "Europe", risk |-> 250],
                        [region |-> "Asia-Pacific", risk |-> 450],
                        [region |-> "North America", risk |-> 150],
                        [region |-> "Middle East", risk |-> 750],
                        [region |-> "Africa", risk |-> 350]>>]

Max(a, b) == IF a >= b THEN a ELSE b

\* what the dashboard endpoints answer: region risks and, as the global
\* score, the highest of them
DashSnapshots ==
    {[riskScore |-> Max(r1, r2),
      riskByRegion |-> <<[region |-> "Europe", risk |-> r1],
                         [region |-> "Middle East", risk |-> r2]>>] :
        r1 \in {150, 450, 750}, r2 \in {150, 450, 750}}

\* Promise.all of three promises, by their status
PromiseAll3(p, q, r) ==
    IF "rejected" \in {p, q, r} THEN "rejected"
    ELSE IF {p, q, r} = {"fulfilled"} THEN "fulfilled"
    ELSE "pending"

IdleDash == [pc |-> "idle", snap |-> [riskScore |-> 0, riskByRegion |-> <<>>],
             overviewP |-> "pending", metricsP |-> "pending",
             activityP |-> "pending"]

DashSettled(c) ==
    /\ dashCalls[c].pc = "awaiting"
    /\ PromiseAll3(dashCalls[c].overviewP, dashCalls[c].metricsP,
                   dashCalls[c].activityP) # "pending"
DashMicrotaskPending == \E c \in DashIds : DashSettled(c)

DashInit ==
    /\ dashMounted = FALSE
    /\ overview = NoOverview
    /\ metrics = NoMetrics
    /\ activity = "initial"
    /\ dashLoading = TRUE
    /\ dashCalls = [c \in DashIds |-> IdleDash]

\* fetchDashboardData up to its await
StartDashFetch(c) ==
    /\ dashCalls[c].pc = "idle"
    /\ \A d \in DashIds : d < c => dashCalls[d].pc # "idle"
    /\ dashLoading' = TRUE
    /\ \E s \in DashSnapshots :
          dashCalls' = [dashCalls EXCEPT ![c] =
                           [IdleDash EXCEPT !.pc = "awaiting", !.snap = s]]

\* useEffect(() => { fetchDashboardData(); }, [])
DashMountEffect ==
    /\ ~dashMounted
    /\ dashMounted' = TRUE
    /\ StartDashFetch(1)
    /\ UNCHANGED <<overview, metrics, activity>>

\* the Refresh button, rendered only when loading is false
DashRefresh(c) ==
    /\ dashMounted /\ ~DashMicrotaskPending
    /\ ~dashLoading
    /\ StartDashFetch(c)
    /\ UNCHANGED <<dashMounted, overview, metrics, activity>>

\* one of the three dashboardAPI calls settles
DashSettles(c) ==
    /\ ~DashMicrotaskPending
    /\ dashCalls[c].pc \in {"awaiting", "done"}
    /\ \E o \in {"fulfilled", "rejected"} :
          \/ /\ dashCalls[c].overviewP = "pending"
             /\ dashCalls' = [dashCalls EXCEPT ![c].overviewP = o]
          \/ /\ dashCalls[c].metricsP = "pending"
             /\ dashCalls' = [dashCalls EXCEPT ![c].metricsP = o]
          \/ /\ dashCalls[c].activityP = "pending"
             /\ dashCalls' = [dashCalls EXCEPT ![c].activityP = o]
    /\ UNCHANGED <<dashMounted, overview, metrics, activity, dashLoading>>

\* fetchDashboardData after its await: try continuation or catch, then finally
DashResume(c) ==
    /\ DashSettled(c)
    /\ LET d == dashCalls[c]
           ok == PromiseAll3(d.overviewP, d.metricsP, d.activityP) = "fulfilled"
       IN /\ overview' = IF ok THEN [kind |-> "server", riskScore |-> d.snap.riskScore]
                         ELSE MockOverview
          /\ metrics' = IF ok THEN [kind |-> "server",
                                    riskByRegion |-> d.snap.riskByRegion]
                        ELSE MockMetrics
          /\ activity' = IF ok THEN "server" ELSE "mock"
    /\ dashLoading' = FALSE
    /\ dashCalls' = [dashCalls EXCEPT ![c].pc = "done"]
    /\ UNCHANGED dashMounted

DashNext ==
    \/ DashMountEffect
    \/ \E c \in DashIds : DashRefresh(c)
    \/ \E c \in DashIds : DashSettles(c)
    \/ \E c \in DashIds : DashResume(c)

\* the level the Global Risk Score card shows, by its colour
GlobalLevel == LevelOfColor(DashboardGetRiskColor(overview.riskScore))

\* Low < Medium < High
LevelRank(l) == CASE l = "Low" -> 1 [] l = "Medium" -> 2 [] l = "High" -> 3

\* ------------------------------------------------------------------------
\* RiskAssessment page
\* ------------------------------------------------------------------------
RiskIds == 1..MaxRiskFetch

\* the mock data of the catch block of fetchRiskData
MockRiskData ==
    <<[region |-> "North America", risk |-> 150, trend |-> "stable"],
      [region |-> "Europe", risk |-> 250, trend |-> "decreasing"],
      [region |-> "Asia-Pacific", risk |-> 450, trend |-> "increasing"],
      [region |-> "Middle East", risk |-> 750, trend |-> "increasing"],
      [region |-> "Africa", risk |-> 350, trend |-> "stable"],
      [region |-> "Latin America", risk |-> 300, trend |-> "decreasing"]>>

\* the first occurrence of every element of seq, in order
RECURSIVE Dedupe(_)
Dedupe(seq) ==
    IF seq = <<>> THEN <<>>
    ELSE <<Head(seq)>> \o Dedupe(FilterOut(Tail(seq), Head(seq)))

\* the profile the risk endpoint computes for a region
ProfileOf(r) ==
    CHOOSE p \in {MockRiskData[i] : i \in 1..Len(MockRiskData)} : p.region = r

\* getRiskAssessment(regions): one profile per distinct requested region, in
\* the order requested
RECURSIVE ProfilesOf(_)
ProfilesOf(regs) ==
    IF regs = <<>> THEN <<>>
    ELSE <<ProfileOf(Head(regs))>> \o ProfilesOf(Tail(regs))
getRiskAssessment(regs) == ProfilesOf(Dedupe(regs))

\* the regions of a list of profiles
RECURSIVE RegionsOf(_)
RegionsOf(ps) ==
    IF ps = <<>> THEN <<>> ELSE <<Head(ps).region>> \o RegionsOf(Tail(ps))

IdleRisk == [pc |-> "idle", regions |-> <<>>, resP |-> "pending",
             wrote |-> <<>>]

RiskSettled(c) == riskCalls[c].pc = "awaiting" /\ riskCalls[c].resP # "pending"
RiskMicrotaskPending == \E c \in RiskIds : RiskSettled(c)

RiskPageInit ==
    /\ riskMounted = FALSE
    /\ riskData = <<>>
    /\ riskSelectedRegions = <<"North America", "Europe", "Asia-Pacific">>
    /\ riskLoading = FALSE
    /\ riskCalls = [c \in RiskIds |-> IdleRisk]

\* fetchRiskData up to its await
StartRiskFetch(c, regs) ==
    /\ riskCalls[c].pc = "idle"
    /\ \A d \in RiskIds : d < c => riskCalls[d].pc # "idle"
    /\ riskLoading' = TRUE
    /\ riskCalls' = [riskCalls EXCEPT ![c] =
                        [IdleRisk EXCEPT !.pc = "awaiting", !.regions = regs]]

\* useEffect(() => { fetchRiskData(); }, [selectedRegions]) on mount
RiskMountEffect ==
    /\ ~riskMounted
    /\ riskMounted' = TRUE
    /\ StartRiskFetch(1, riskSelectedRegions)
    /\ UNCHANGED <<riskData, riskSelectedRegions>>

\* the Refresh button: onClick={fetchRiskData} disabled={loading}
RiskRefresh(c) ==
    /\ riskMounted /\ ~RiskMicrotaskPending
    /\ ~riskLoading
    /\ StartRiskFetch(c, riskSelectedRegions)
    /\ UNCHANGED <<riskMounted, riskData, riskSelectedRegions>>

\* a region checkbox changes; the effect then calls fetchRiskData
RiskToggleRegion(r, c) ==
    /\ riskMounted /\ ~RiskMicrotaskPending
    /\ LET sel == IF ~Includes(riskSelectedRegions, r)
                  THEN Append(riskSelectedRegions, r)
                  ELSE FilterOut(riskSelectedRegions, r)
       IN /\ riskSelectedRegions' = sel
          /\ StartRiskFetch(c, sel)
    /\ UNCHANGED <<riskMounted, riskData>>

\* analysisAPI.getRiskAssessment(selectedRegions) settles: with the profiles,
\* without a body, or with an error
RiskSettles(c) ==
    /\ ~RiskMicrotaskPending
    /\ riskCalls[c].pc = "awaiting"
    /\ riskCalls[c].resP = "pending"
    /\ \E o \in {"data", "null", "rejected"} :
          riskCalls' = [riskCalls EXCEPT ![c].resP = o]
    /\ UNCHANGED <<riskMounted, riskData, riskSelectedRegions, riskLoading>>

\* fetchRiskData after its await: try continuation or catch, then finally
RiskResume(c) ==
    /\ RiskSettled(c)
    /\ LET v == CASE riskCalls[c].resP = "data" ->
                         getRiskAssessment(riskCalls[c].regions)
                  [] riskCalls[c].resP = "null" -> <<>>
                  [] riskCalls[c].resP = "rejected" -> MockRiskData
       IN /\ riskData' = v
          /\ riskCalls' = [riskCalls EXCEPT ![c].pc = "done", ![c].wrote = v]
    /\ riskLoading' = FALSE
    /\ UNCHANGED <<riskMounted, riskSelectedRegions>>

RiskPageNext ==
    \/ RiskMountEffect
    \/ \E c \in RiskIds : RiskRefresh(c)
    \/ \E r \in ToggledRegions, c \in RiskIds : RiskToggleRegion(r, c)
    \/ \E c \in RiskIds : RiskSettles(c)
    \/ \E c \in RiskIds : RiskResume(c)

\* ------------------------------------------------------------------------
\* Region risk scoring of a request (raw scores in tenths)
\* ------------------------------------------------------------------------
RegionSet == {regions[i] : i \in 1..Len(regions)}

\* the region names a request is built from: two regions and an unknown name
RequestNames == {"Europe", "Middle East", "Atlantis"}
ScoredRegions == RequestNames \cap RegionSet

\* sequences over S of length at most n
SeqsUpTo(S, n) == UNION {[1..k -> S] : k \in 0..n}

\* the raw score vectors tried: the example, its bounds 0.0 and 1.0, and one
\* factor above 1.0 or below 0.0
RawChoices ==
    {ExampleRaw,
     [ExampleRaw EXCEPT !["political_stability"] = 10],
     [ExampleRaw EXCEPT !["trade_relations"] = 0],
     [ExampleRaw EXCEPT !["political_stability"] = 11],
     [ExampleRaw EXCEPT !["trade_relations"] = -1]}

\* a raw score lies in [0,1]
RawInRange(x) == x >= 0 /\ x <= 10
\* a validation that forgets the lower bound
RawAtMostOne(x) == x <= 10

\* the profiles of the regions regs
RECURSIVE ScoreAll(_, _)
ScoreAll(regs, raw) ==
    IF regs = <<>> THEN <<>>
    ELSE LET sc == RegionRiskScorer(raw[Head(regs)])
         IN <<[region |-> Head(regs), score |-> sc, level |-> getRiskLevel(sc)]>>
            \o ScoreAll(Tail(regs), raw)

\* as RegionRiskScorerAssess, with the lower bound of the raw scores unchecked
RegionRiskScorerAssessLax(regs, raw) ==
    IF \/ \E i \in 1..Len(regs) : regs[i] \notin RegionSet
       \/ \E r \in DOMAIN raw : \E f \in FactorSet : ~RawAtMostOne(raw[r][f])
    THEN [status |-> "ValidationError"]
    ELSE [status |-> "ok", profiles |-> ScoreAll(Dedupe(regs), raw)]

\* the scorer applied to a request: ValidationError for a raw score outside
\* [0,1] or an unknown region, else one profile per distinct region in order
RegionRiskScorerAssess(regs, raw) ==
    IF \/ \E i \in 1..Len(regs) : regs[i] \notin RegionSet
       \/ \E r \in DOMAIN raw : \E f \in FactorSet : ~RawInRange(raw[r][f])
    THEN [status |-> "ValidationError"]
    ELSE [status |-> "ok", profiles |-> ScoreAll(Dedupe(regs), raw)]

AssessInit ==
    /\ reqRegions = <<>>
    /\ reqRaw = <<>>
    /\ assessment = [assessed |-> FALSE]
AssessInputs ==
    /\ reqRegions \in SeqsUpTo(RequestNames, MaxRequest)
    /\ reqRaw \in [ScoredRegions -> RawChoices]
    /\ assessment = [assessed |-> FALSE]

\* the request is scored
Assess ==
    /\ ~assessment.assessed
    /\ assessment' = [assessed |-> TRUE,
                      result |-> RegionRiskScorerAssess(reqRegions, reqRaw)]
    /\ UNCHANGED <<reqRegions, reqRaw>>

\* ------------------------------------------------------------------------
\* Sentiment of news items (sentiment in thousandths, -1000..1000)
\* ------------------------------------------------------------------------
\* a colouring that counts 0.3 itself as positive
getSentimentColorInclusive(s) ==
    IF s >= 300 THEN "text-success-600"
    ELSE IF s < -300 THEN "text-danger-600"
    ELSE "text-gray-600"

\* RealTimeAnalysis.getSentimentColor
getSentimentColor(s) ==
    IF s > 300 THEN "text-success-600"
    ELSE IF s < -300 THEN "text-danger-600"
    ELSE "text-gray-600"

\* RealTimeAnalysis.getSentimentIcon
getSentimentIcon(s) ==
    IF s > 300 THEN "CheckCircle"
    ELSE IF s < -300 THEN "AlertTriangle"
    ELSE "Clock"

\* the class of an item, as the page colours it
SentimentClass(s) ==
    CASE getSentimentColor(s) = "text-success-600" -> "positive"
      [] getSentimentColor(s) = "text-danger-600" -> "negative"
      [] getSentimentColor(s) = "text-gray-600" -> "neutral"

\* the number of items of class c
RECURSIVE CountClass(_, _)
CountClass(its, c) ==
    IF its = <<>> THEN 0
    ELSE (IF SentimentClass(Head(its).sentiment) = c THEN 1 ELSE 0)
         + CountClass(Tail(its), c)

\* the sum of the sentiments
RECURSIVE SumSentiment(_)
SumSentiment(its) ==
    IF its = <<>> THEN 0 ELSE Head(its).sentiment + SumSentiment(Tail(its))

\* shares and mean as exact fractions: positive / of, ..., meanSum / of
Aggregate(its) ==
    [positive |-> CountClass(its, "positive"),
     negative |-> CountClass(its, "negative"),
     neutral |-> CountClass(its, "neutral"),
     of |-> Len(its),
     meanSum |-> SumSentiment(its)]

\* the aggregate of no items: shares 0 and mean 0
EmptyAggregate ==
    [positive |-> 0, negative |-> 0, neutral |-> 0, of |-> 1, meanSum |-> 0]

\* an aggregator that reports an empty input as all neutral
SentimentAggregatorEmptyNeutral(its) ==
    IF its = <<>> THEN [EmptyAggregate EXCEPT !.neutral = 1] ELSE Aggregate(its)

\* an aggregator that cuts its window of two items before ordering them
SentimentAggregatorFirstTwo(its) ==
    IF its = <<>> THEN EmptyAggregate
    ELSE Aggregate(SubSeq(its, 1, IF Len(its) < 2 THEN Len(its) ELSE 2))

\* SentimentAggregator: shares of positive, negative and neutral items and
\* the mean sentiment; shares 0 and mean 0 on empty input
SentimentAggregator(its) ==
    IF its = <<>> THEN EmptyAggregate ELSE Aggregate(its)

SentimentValues == {-1000, -301, -300, 0, 300, 301, 1000}
NewsItems == {[sentiment |-> v] : v \in SentimentValues}

\* the reorderings of a sequence
Orderings(n) == {p \in [1..n -> 1..n] : \A i, j \in 1..n : p[i] = p[j] => i = j}
Reorder(its, p) == [i \in 1..Len(its) |-> its[p[i]]]

SentimentInit ==
    /\ items = <<>>
    /\ aggregate = [done |-> FALSE]
    /\ reordered = [done |-> FALSE]
SentimentInputs ==
    /\ items \in SeqsUpTo(NewsItems, MaxItems)
    /\ aggregate = [done |-> FALSE]
    /\ reordered = [done |-> FALSE]

\* the items are aggregated
AggregateItems ==
    /\ ~aggregate.done
    /\ aggregate' = [done |-> TRUE, value |-> SentimentAggregator(items)]
    /\ UNCHANGED <<items, reordered>>

\* the same items are aggregated in another order
AggregateReordered ==
    /\ ~reordered.done
    /\ \E p \in Orderings(Len(items)) :
          reordered' = [done |-> TRUE, items |-> Reorder(items, p),
                        value |-> SentimentAggregator(Reorder(items, p))]
    /\ UNCHANGED <<items, aggregate>>

SentimentNext == AggregateItems \/ AggregateReordered

\* ------------------------------------------------------------------------
\* MarketImpact page: what is rendered for a sector (impact in thousandths)
\* ------------------------------------------------------------------------
\* MarketImpact.getImpactColor
getImpactColor(i) ==
    IF i > 700 THEN "text-danger-600"
    ELSE IF i > 400 THEN "text-warning-600"
    ELSE "text-success-600"

\* MarketImpact.getImpactLevel
getImpactLevel(i) ==
    IF i > 700 THEN "High" ELSE IF i > 400 THEN "Medium" ELSE "Low"

\* a recommendation that counts 0.7 itself as Monitor Closely
RecommendationInclusive(i) ==
    IF i >= 700 THEN "Monitor Closely"
    ELSE IF i > 400 THEN "Watch for Changes"
    ELSE "Stable"

\* the Recommendation text of a sector card
Recommendation(i) ==
    IF i > 700 THEN "Monitor Closely"
    ELSE IF i > 400 THEN "Watch for Changes"
    ELSE "Stable"

\* the colour of the Recommendation text
RecommendationColor(i) ==
    IF i > 700 THEN "text-danger-600"
    ELSE IF i > 400 THEN "text-warning-600"
    ELSE "text-success-600"

\* the filters of the High Impact Sectors and Stable Sectors lists
HighImpactListed(i) == i > 700
StableListed(i) == i < 400

ImpactInit == impact = 0 /\ impactShown = [rendered |-> FALSE]
ImpactInputs == impact \in Scores /\ impactShown = [rendered |-> FALSE]

\* the page renders a sector of impact `impact`
RenderImpact ==
    /\ ~impactShown.rendered
    /\ impactShown' = [rendered |-> TRUE,
                       level |-> getImpactLevel(impact),
                       color |-> getImpactColor(impact),
                       recommendation |-> Recommendation(impact),
                       recommendationColor |-> RecommendationColor(impact),
                       highImpactListed |-> HighImpactListed(impact),
                       stableListed |-> StableListed(impact)]
    /\ UNCHANGED impact

\* ------------------------------------------------------------------------
\* Sector impact scorer: volume percentile (volumes in thousands)
\* ------------------------------------------------------------------------
\* the volumes tried
Volumes == {650, 890, 1250, 2100}

\* a rank that counts only the sectors of strictly lower volume
VolumePercentileStrict(vols, i) ==
    (Cardinality({j \in 1..Len(vols) : vols[j] < vols[i]}) * 1000) \div Len(vols)

\* the percentile rank of sector i among the requested sectors: the share of
\* sectors whose volume is at most its volume, in thousandths
VolumePercentile(vols, i) ==
    (Cardinality({j \in 1..Len(vols) : vols[j] <= vols[i]}) * 1000) \div Len(vols)

SectorInit == sectorVolumes = <<>> /\ sectorResult = [scored |-> FALSE]
SectorInputs ==
    /\ sectorVolumes \in SeqsUpTo(Volumes, MaxSectors)
    /\ sectorResult = [scored |-> FALSE]

\* the requested sectors are scored
ScoreSectors ==
    /\ ~sectorResult.scored
    /\ sectorResult' =
          [scored |-> TRUE, status |-> "ok",
           percentiles |-> [i \in 1..Len(sectorVolumes) |->
                               VolumePercentile(sectorVolumes, i)]]
    /\ UNCHANGED sectorVolumes

\* ------------------------------------------------------------------------
\* Trend classifier (scores in thousandths)
\* ------------------------------------------------------------------------
\* the default threshold 0.03
DefaultTrendThreshold == 30
TrendThresholds == {DefaultTrendThreshold, 50}

\* the score snapshots tried
TrendScores == {470, 471, 500, 529, 530, 550}

Abs(x) == IF x < 0 THEN -x ELSE x

\* a classifier that calls a move of exactly the threshold stable
TrendClassifierInclusive(snaps, thr) ==
    IF Len(snaps) < 2 THEN "stable"
    ELSE LET delta == snaps[Len(snaps)] - snaps[Len(snaps) - 1]
         IN IF Abs(delta) <= thr THEN "stable"
            ELSE IF delta > 0 THEN "increasing"
            ELSE "decreasing"

\* a classifier that refuses a history of fewer than two snapshots
TrendClassifierNeedsTwo(snaps, thr) ==
    IF Len(snaps) < 2 THEN "error"
    ELSE TrendClassifierInclusive(snaps, thr)

\* TrendClassifier: delta = latest - previous; |delta| < threshold is stable,
\* delta > 0 increasing, delta < 0 decreasing; one snapshot is stable
TrendClassifier(snaps, thr) ==
    IF Len(snaps) < 2 THEN "stable"
    ELSE LET delta == snaps[Len(snaps)] - snaps[Len(snaps) - 1]
         IN IF Abs(delta) < thr THEN "stable"
            ELSE IF delta > 0 THEN "increasing"
            ELSE "decreasing"

\* RiskAssessment.getTrendIcon: the icon shown beside a trend label
getTrendIcon(t) ==
    IF t = "increasing" THEN "trending-up danger"
    ELSE IF t = "decreasing" THEN "trending-up success rotated"
    ELSE "gray dot"

TrendInit ==
    /\ snapshots = <<>>
    /\ trendThreshold = DefaultTrendThreshold
    /\ trend = "none"
TrendInputs ==
    /\ snapshots \in SeqsUpTo(TrendScores, MaxSnapshots) \ {<<>>}
    /\ trendThreshold \in TrendThresholds
    /\ trend = "none"

\* the snapshots are classified
Classify ==
    /\ trend = "none"
    /\ trend' = TrendClassifier(snapshots, trendThreshold)
    /\ UNCHANGED <<snapshots, trendThreshold>>

\* ------------------------------------------------------------------------
\* RiskAssessment page: Risk Summary
\* ------------------------------------------------------------------------
\* a summary whose medium card leaves out a risk of exactly 0.3
RiskSummaryStrict(data) ==
    LET ix == 1..Len(data)
    IN [low |-> Cardinality({i \in ix : data[i].risk < 300}),
        medium |-> Cardinality({i \in ix : data[i].risk > 300
                                            /\ data[i].risk < 600}),
        high |-> Cardinality({i \in ix : data[i].risk >= 600})]

\* the three counts of the Risk Summary cards: riskData.filter(...).length
RiskSummary(data) ==
    LET ix == 1..Len(data)
    IN [low |-> Cardinality({i \in ix : data[i].risk < 300}),
        medium |-> Cardinality({i \in ix : data[i].risk >= 300
                                            /\ data[i].risk < 600}),
        high |-> Cardinality({i \in ix : data[i].risk >= 600})]

\* ------------------------------------------------------------------------
\* api: the axios instance and its interceptors
\* ------------------------------------------------------------------------
ApiIds == 1..MaxApiCalls

\* the paths registered in the App router
Routes == {"/", "/real-time", "/historical", "/risk-assessment",
           "/market-impact", "/settings"}

\* localStorage.getItem('authToken') of an absent item, and the tokens stored
NoToken == "null"
Tokens == {"token-a", "token-b"}

\* the Authorization header of a request
NoHeader == [scheme |-> "none", token |-> "none"]
Bearer(t) == [scheme |-> "Bearer", token |-> t]

\* what a request is answered with: a status, or no response at all
Statuses == {"200", "401", "500", "no response"}

\* a request interceptor that sets the header whatever getItem returned
RequestInterceptorAlways(token) == Bearer(token)

\* api.interceptors.request: the header set for the token read
RequestInterceptor(token) ==
    IF token # NoToken /\ token # "" THEN Bearer(token) ELSE NoHeader

IdleApi == [pc |-> "idle", authorization |-> NoHeader, status |-> "none"]

AuthInit ==
    /\ authToken = NoToken
    /\ location = "/"
    /\ apiCalls = [i \in ApiIds |-> IdleApi]

\* a token is put into localStorage under 'authToken'
StoreToken(t) ==
    /\ authToken # t
    /\ authToken' = t
    /\ UNCHANGED <<location, apiCalls>>

\* a request goes through the request interceptor and is sent
SendRequest(i) ==
    /\ apiCalls[i].pc = "idle"
    /\ \A j \in ApiIds : j < i => apiCalls[j].pc # "idle"
    /\ apiCalls' = [apiCalls EXCEPT ![i].pc = "sent",
                      ![i].authorization = RequestInterceptor(authToken)]
    /\ UNCHANGED <<authToken, location>>

\* a request is answered and goes through the response interceptor
Respond(i, st) ==
    /\ apiCalls[i].pc = "sent"
    /\ apiCalls' = [apiCalls EXCEPT
          ![i].pc = IF st = "200" THEN "resolved" ELSE "rejected",
          ![i].status = st]
    /\ IF st = "401"
       THEN authToken' = NoToken /\ location' = "/login"
       ELSE UNCHANGED <<authToken, location>>

AuthNext ==
    \/ \E t \in Tokens : StoreToken(t)
    \/ \E i \in ApiIds : SendRequest(i)
    \/ \E i \in ApiIds, st \in Statuses : Respond(i, st)

\* ------------------------------------------------------------------------
\* JSON.stringify and JSON.parse
\* ------------------------------------------------------------------------
\* A JS object is a function from property names to values; a number is
\* written by its decimal text, NaN by "NaN", null by "null".  A JSON text
\* is modelled by the tokens of its members.
JsonString(s) == <<"string", s>>
JsonNumber(n) == IF n = "NaN" THEN <<"null">> ELSE <<"number", n>>
JsonArray(seq) == <<"array", [i \in 1..Len(seq) |-> JsonString(seq[i])]>>

\* the kind of value each property holds
ArrayProperties == {"regions", "sectors", "keyInsights", "recommendations",
                    "historicalData", "marketHistory"}
NumberProperties == {"refreshInterval"}

\* JSON.stringify(obj)
JSONStringify(obj) ==
    [k \in DOMAIN obj |->
        IF k \in ArrayProperties THEN JsonArray(obj[k])
        ELSE IF k \in NumberProperties THEN JsonNumber(obj[k])
        ELSE JsonString(obj[k])]

\* JSON.parse(text)
JSONParse(text) ==
    [k \in DOMAIN text |->
        IF text[k][1] = "array"
        THEN [i \in 1..Len(text[k][2]) |-> text[k][2][i][2]]
        ELSE IF text[k][1] = "null" THEN "null"
        ELSE text[k][2]]

\* ------------------------------------------------------------------------
\* Export and import of an analysis
\* ------------------------------------------------------------------------
\* the fields of a serialized AnalysisResult
AnalysisFields == {"summary", "keyInsights", "recommendations", "riskLevel",
                   "generatedAt"}

\* the mock analysis of the catch block of generateAnalysis, as an object
MockAnalysisObject ==
    [summary |-> MockAnalysis.summary,
     keyInsights |-> <<"insight 1", "insight 2", "insight 3">>,
     recommendations |-> <<"recommendation 1", "recommendation 2",
                           "recommendation 3">>,
     riskLevel |-> MockAnalysis.riskLevel]

\* the analyses an orchestrator returns
ServerAnalysisObjects ==
    [summary : {"summary 1", "summary 2"},
     keyInsights : SeqsUpTo({"insight 1", "insight 2"}, MaxInsights),
     recommendations : {<<>>, <<"recommendation 1">>},
     riskLevel : {"Low", "Medium", "High"},
     generatedAt : {"2024-01-01T00:00:00Z", "2024-01-02T00:00:00Z"}]

\* the object exportData of HistoricalAnalysis serializes (rows by date)
HistoricalExport ==
    [historicalData |-> <<"2024-01-01", "2024-01-02">>,
     marketHistory |-> <<"2024-01-01", "2024-01-02">>]

NoFile == [present |-> FALSE]

ExportInit ==
    /\ exportSource = HistoricalExport
    /\ exportFile = NoFile
    /\ imported = NoFile
ExportInputs ==
    /\ exportSource \in {HistoricalExport, MockAnalysisObject}
                          \cup ServerAnalysisObjects
    /\ exportFile = NoFile
    /\ imported = NoFile

\* HistoricalAnalysis.exportData: the page state is written as JSON
exportData ==
    /\ exportSource = HistoricalExport
    /\ ~exportFile.present
    /\ exportFile' = [present |-> TRUE, text |-> JSONStringify(exportSource)]
    /\ UNCHANGED <<exportSource, imported>>

\* an analysis is serialized for export
ExportAnalysis ==
    /\ exportSource # HistoricalExport
    /\ ~exportFile.present
    /\ exportFile' = [present |-> TRUE, text |-> JSONStringify(exportSource)]
    /\ UNCHANGED <<exportSource, imported>>

\* an exported file is parsed back
ImportFile ==
    /\ exportFile.present
    /\ ~imported.present
    /\ imported' = [present |-> TRUE, value |-> JSONParse(exportFile.text)]
    /\ UNCHANGED <<exportSource, exportFile>>

ExportNext == exportData \/ ExportAnalysis \/ ImportFile

\* ------------------------------------------------------------------------
\* Settings page
\* ------------------------------------------------------------------------
\* useState initial value of settings (apiKeys.openai, regions, sectors and
\* refreshInterval of it)
DefaultSettings ==
    [openai |-> "",
     regions |-> <<"North America", "Europe", "Asia-Pacific">>,
     sectors |-> <<"Technology", "Energy", "Finance">>,
     refreshInterval |-> "300"]

\* the edits made
ApiKeyValues == {"", "sk-1"}
IntervalTexts == {"300", "60", ""}
SettingsToggledRegions == {"Europe", "Middle East"}
SettingsToggledSectors == {"Healthcare"}

\* parseInt(e.target.value) of a number input
parseInt(text) == IF text = "" THEN "NaN" ELSE text

\* a checkbox handler that replaces the selection by the entry checked
ToggleEntryAlone(list, x, checked) ==
    IF checked THEN <<x>> ELSE FilterOut(list, x)

\* onChange of a checkbox: [...list, x] when checked, else list.filter
ToggleEntry(list, x, checked) ==
    IF checked THEN Append(list, x) ELSE FilterOut(list, x)

SettingsInit ==
    /\ settings = DefaultSettings
    /\ stored = NoFile
    /\ settingsVisits = 1

handleApiKeyChange(v) ==
    /\ settings.openai # v
    /\ settings' = [settings EXCEPT !.openai = v]
    /\ UNCHANGED <<stored, settingsVisits>>

\* a Default Regions checkbox is clicked (checked = it was not included)
SettingsToggleRegion(r) ==
    /\ settings' = [settings EXCEPT
                       !.regions = ToggleEntry(@, r, ~Includes(@, r))]
    /\ UNCHANGED <<stored, settingsVisits>>

\* a Default Sectors checkbox is clicked
SettingsToggleSector(s) ==
    /\ settings' = [settings EXCEPT
                       !.sectors = ToggleEntry(@, s, ~Includes(@, s))]
    /\ UNCHANGED <<stored, settingsVisits>>

\* the Refresh Interval input changes
SetRefreshInterval(text) ==
    /\ settings.refreshInterval # parseInt(text)
    /\ settings' = [settings EXCEPT !.refreshInterval = parseInt(text)]
    /\ UNCHANGED <<stored, settingsVisits>>

\* handleSave: localStorage.setItem('gma-settings', JSON.stringify(settings))
handleSave ==
    /\ stored' = [present |-> TRUE, text |-> JSONStringify(settings)]
    /\ UNCHANGED <<settings, settingsVisits>>

\* the page is loaded again: useState starts from its initial value
SettingsReload ==
    /\ settingsVisits < MaxVisits
    /\ settingsVisits' = settingsVisits + 1
    /\ settings' = DefaultSettings
    /\ UNCHANGED stored

SettingsNext ==
    \/ \E v \in ApiKeyValues : handleApiKeyChange(v)
    \/ \E r \in SettingsToggledRegions : SettingsToggleRegion(r)
    \/ \E s \in SettingsToggledSectors : SettingsToggleSector(s)
    \/ \E t \in IntervalTexts : SetRefreshInterval(t)
    \/ handleSave
    \/ SettingsReload

\* ------------------------------------------------------------------------
\* Specifications
\* ------------------------------------------------------------------------
\* the RealTimeAnalysis page
Init ==
    /\ PageInit
    /\ LevelInit
    /\ ScorerInit
    /\ ConfigInit
    /\ DashInit
    /\ RiskPageInit
    /\ AssessInit
    /\ SentimentInit
    /\ ImpactInit
    /\ SectorInit
    /\ TrendInit
    /\ AuthInit
    /\ ExportInit
    /\ SettingsInit
Next == PageNext /\ UNCHANGED notPage
Spec == Init /\ [][Next]_vars

\* the event loop runs a queued continuation, and React runs the mount
\* effect; nothing makes a collaborator answer
Fairness ==
    /\ WF_vars(MountEffect /\ UNCHANGED notPage)
    /\ \A c \in FetchIds : WF_vars(FetchResume(c) /\ UNCHANGED notPage)
    /\ \A g \in GenIds : WF_vars(GenResume(g) /\ UNCHANGED notPage)
LiveSpec == Init /\ [][Next]_vars /\ Fairness

\* the risk classifiers applied to every score
InitLevel ==
    /\ PageInit
    /\ LevelInputs
    /\ ScorerInit
    /\ ConfigInit
    /\ DashInit
    /\ RiskPageInit
    /\ AssessInit
    /\ SentimentInit
    /\ ImpactInit
    /\ SectorInit
    /\ TrendInit
    /\ AuthInit
    /\ ExportInit
    /\ SettingsInit
NextLevel == RenderRisk /\ UNCHANGED notLevel
SpecLevel == InitLevel /\ [][NextLevel]_vars

\* the region risk scorer applied to raw scores
InitScorer ==
    /\ PageInit
    /\ LevelInit
    /\ ScorerInputs
    /\ ConfigInit
    /\ DashInit
    /\ RiskPageInit
    /\ AssessInit
    /\ SentimentInit
    /\ ImpactInit
    /\ SectorInit
    /\ TrendInit
    /\ AuthInit
    /\ ExportInit
    /\ SettingsInit
NextScorer == ScoreRegion /\ UNCHANGED notScorer
SpecScorer == InitScorer /\ [][NextScorer]_vars

\* the scorer constructed with candidate weight sets
InitConfig ==
    /\ PageInit
    /\ LevelInit
    /\ ScorerInit
    /\ ConfigInputs
    /\ DashInit
    /\ RiskPageInit
    /\ AssessInit
    /\ SentimentInit
    /\ ImpactInit
    /\ SectorInit
    /\ TrendInit
    /\ AuthInit
    /\ ExportInit
    /\ SettingsInit
NextConfig == Construct /\ UNCHANGED notConfig
SpecConfig == InitConfig /\ [][NextConfig]_vars

\* the Dashboard page
InitDash ==
    /\ PageInit
    /\ LevelInit
    /\ ScorerInit
    /\ ConfigInit
    /\ DashInit
    /\ RiskPageInit
    /\ AssessInit
    /\ SentimentInit
    /\ ImpactInit
    /\ SectorInit
    /\ TrendInit
    /\ AuthInit
    /\ ExportInit
    /\ SettingsInit
NextDash == DashNext /\ UNCHANGED notDash
SpecDash == InitDash /\ [][NextDash]_vars

\* the RiskAssessment page
InitRiskPage ==
    /\ PageInit
    /\ LevelInit
    /\ ScorerInit
    /\ ConfigInit
    /\ DashInit
    /\ RiskPageInit
    /\ AssessInit
    /\ SentimentInit
    /\ ImpactInit
    /\ SectorInit
    /\ TrendInit
    /\ AuthInit
    /\ ExportInit
    /\ SettingsInit
NextRiskPage == RiskPageNext /\ UNCHANGED notRiskPage
SpecRiskPage == InitRiskPage /\ [][NextRiskPage]_vars

\* the scorer applied to requests of regions
InitAssess ==
    /\ PageInit
    /\ LevelInit
    /\ ScorerInit
    /\ ConfigInit
    /\ DashInit
    /\ RiskPageInit
    /\ AssessInputs
    /\ SentimentInit
    /\ ImpactInit
    /\ SectorInit
    /\ TrendInit
    /\ AuthInit
    /\ ExportInit
    /\ SettingsInit
NextAssess == Assess /\ UNCHANGED notAssess
SpecAssess == InitAssess /\ [][NextAssess]_vars

\* the sentiment aggregator applied to item sequences
InitSentiment ==
    /\ PageInit
    /\ LevelInit
    /\ ScorerInit
    /\ ConfigInit
    /\ DashInit
    /\ RiskPageInit
    /\ AssessInit
    /\ SentimentInputs
    /\ ImpactInit
    /\ SectorInit
    /\ TrendInit
    /\ AuthInit
    /\ ExportInit
    /\ SettingsInit
NextSentiment == SentimentNext /\ UNCHANGED notSentiment
SpecSentiment == InitSentiment /\ [][NextSentiment]_vars

\* the MarketImpact rendering applied to every impact
InitImpact ==
    /\ PageInit
    /\ LevelInit
    /\ ScorerInit
    /\ ConfigInit
    /\ DashInit
    /\ RiskPageInit
    /\ AssessInit
    /\ SentimentInit
    /\ ImpactInputs
    /\ SectorInit
    /\ TrendInit
    /\ AuthInit
    /\ ExportInit
    /\ SettingsInit
NextImpact == RenderImpact /\ UNCHANGED notImpact
SpecImpact == InitImpact /\ [][NextImpact]_vars

\* the sector scorer applied to requests of sectors
InitSector ==
    /\ PageInit
    /\ LevelInit
    /\ ScorerInit
    /\ ConfigInit
    /\ DashInit
    /\ RiskPageInit
    /\ AssessInit
    /\ SentimentInit
    /\ ImpactInit
    /\ SectorInputs
    /\ TrendInit
    /\ AuthInit
    /\ ExportInit
    /\ SettingsInit
NextSector == ScoreSectors /\ UNCHANGED notSector
SpecSector == InitSector /\ [][NextSector]_vars

\* the trend classifier applied to snapshot sequences
InitTrend ==
    /\ PageInit
    /\ LevelInit
    /\ ScorerInit
    /\ ConfigInit
    /\ DashInit
    /\ RiskPageInit
    /\ AssessInit
    /\ SentimentInit
    /\ ImpactInit
    /\ SectorInit
    /\ TrendInputs
    /\ AuthInit
    /\ ExportInit
    /\ SettingsInit
NextTrend == Classify /\ UNCHANGED notTrend
SpecTrend == InitTrend /\ [][NextTrend]_vars

\* the api instance and its interceptors
InitAuth ==
    /\ PageInit
    /\ LevelInit
    /\ ScorerInit
    /\ ConfigInit
    /\ DashInit
    /\ RiskPageInit
    /\ AssessInit
    /\ SentimentInit
    /\ ImpactInit
    /\ SectorInit
    /\ TrendInit
    /\ AuthInit
    /\ ExportInit
    /\ SettingsInit
NextAuth == AuthNext /\ UNCHANGED notAuth
SpecAuth == InitAuth /\ [][NextAuth]_vars

\* export and import of an analysis
InitExport ==
    /\ PageInit
    /\ LevelInit
    /\ ScorerInit
    /\ ConfigInit
    /\ DashInit
    /\ RiskPageInit
    /\ AssessInit
    /\ SentimentInit
    /\ ImpactInit
    /\ SectorInit
    /\ TrendInit
    /\ AuthInit
    /\ ExportInputs
    /\ SettingsInit
NextExport == ExportNext /\ UNCHANGED notExport
SpecExport == InitExport /\ [][NextExport]_vars

\* the Settings page
InitSettings ==
    /\ PageInit
    /\ LevelInit
    /\ ScorerInit
    /\ ConfigInit
    /\ DashInit
    /\ RiskPageInit
    /\ AssessInit
    /\ SentimentInit
    /\ ImpactInit
    /\ SectorInit
    /\ TrendInit
    /\ AuthInit
    /\ ExportInit
    /\ SettingsInit
NextSettings == SettingsNext /\ UNCHANGED notSettings
SpecSettings == InitSettings /\ [][NextSettings]_vars

\* ------------------------------------------------------------------------
\* Properties
\* ------------------------------------------------------------------------
\* a value carries a degraded flag
IsFlaggedDegraded(w) == "degraded" \in DOMAIN w /\ w.degraded = TRUE

\* how the two collaborator calls of fetchData call c ended
NewsFailed(c) == fetches[c].newsP.status = "rejected"
MarketFailed(c) == fetches[c].marketP.status = "rejected"
NewsOk(c) == fetches[c].newsP.status = "fulfilled"
MarketOk(c) == fetches[c].marketP.status = "fulfilled"
FetchDone(c) == fetches[c].pc = "done"

\* C1: when exactly one of the news and market fetches of a finished
\* fetchData call failed and the other succeeded, the call published the
\* data of the successful fetch, an empty list for the failed one, and a
\* degraded flag.
C1_PartialFailureDegraded ==
    \A c \in FetchIds :
        (FetchDone(c) /\ ((NewsOk(c) /\ MarketFailed(c)) \/ (NewsFailed(c) /\ MarketOk(c))))
        => /\ fetches[c].wrote.news =
                (IF NewsOk(c) THEN DataOrEmpty(fetches[c].newsP) ELSE EmptyList)
           /\ fetches[c].wrote.marketData =
                (IF MarketOk(c) THEN DataOrEmpty(fetches[c].marketP) ELSE EmptyList)
           /\ IsFlaggedDegraded(fetches[c].wrote)

\* C2: whenever a fetchData or generateAnalysis call has failed, what it
\* published carries a degraded flag or the call rethrew the error.
C2_NoSilentSwallow ==
    /\ \A c \in FetchIds :
          (FetchDone(c) /\ (NewsFailed(c) \/ MarketFailed(c)))
          => (IsFlaggedDegraded(fetches[c].wrote) \/ fetches[c].result = "rejected")
    /\ \A g \in GenIds :
          (analyses[g].pc = "done" /\ analyses[g].resP.status = "rejected")
          => (IsFlaggedDegraded(analyses[g].wrote) \/ analyses[g].result = "rejected")

\* C3: when both the news fetch and the market fetch of a finished fetchData
\* call failed, the call failed with DataUnavailableError and published no
\* data.
C3_TotalFailureThrows ==
    \A c \in FetchIds :
        (FetchDone(c) /\ NewsFailed(c) /\ MarketFailed(c))
        => /\ fetches[c].result = "DataUnavailableError"
           /\ ~fetches[c].wrote.written

\* C4: a fetchData call publishes nothing (data or failure handling) before
\* both of its fetches have succeeded or failed.
C4_FanInJoin ==
    \A c \in FetchIds :
        FetchDone(c) => /\ fetches[c].newsP.status # "pending"
                        /\ fetches[c].marketP.status # "pending"

\* C5: every started fetchData call eventually finishes, with loading reset.
C5_NoIndefiniteBlocking ==
    \A c \in FetchIds :
        (fetches[c].pc = "awaiting") ~> (fetches[c].pc = "done" /\ ~loading)

\* C6: the inputs of every analysis request are the news and market data of
\* its own request: a server list it posts answers the selection the request
\* was made with.
C6_RequestScoped ==
    \A g \in GenIds :
        analyses[g].pc # "idle"
        => /\ analyses[g].newsData.kind = "server"
                => analyses[g].newsData.query = analyses[g].regions
           /\ analyses[g].marketData.kind = "server"
                => analyses[g].marketData.query = MapUpper(analyses[g].sectors)

\* the level of the risk model: Low below 0.4, Medium from 0.4, High from 0.7
ClaimedLevel(r) ==
    IF r < 400 THEN "Low" ELSE IF r < 700 THEN "Medium" ELSE "High"

\* C7: the level shown for a score is Low below 0.4, Medium from 0.4 and
\* below 0.7, High from 0.7.
C7_LevelBoundaries ==
    shown.rendered => /\ shown.level = ClaimedLevel(risk)
                      /\ shown.dashboardLevel = ClaimedLevel(risk)

\* C8: every place that classifies a risk score, and the documented risk
\* model, give the same level to the score.
C8_UniformThresholds ==
    shown.rendered =>
        LET doc == DocRiskLevel(risk)
        IN /\ shown.dashboardLevel = doc
           /\ LevelOfColor(shown.dashboardColor) = doc
           /\ shown.level = doc
           /\ LevelOfColor(shown.color) = doc
           /\ shown.buckets = {doc}

\* C9: for all raw factor scores in [0,1] the region risk score lies in [0,1].
C9_ScoreInRange ==
    profile.scored => (profile.score >= 0 /\ profile.score <= 1000)

C9_Witness ==
    /\ profile.scored
    /\ \A f \in FactorSet : rawScores[f] = 10
    /\ profile.score = 1000

\* C10: the documented example scores 0.635 and its level is Medium.
C10_Example ==
    (profile.scored /\ rawScores = ExampleRaw)
    => (profile.score = 635 /\ profile.level = "Medium")

\* C11: the risk factor weights sum to 1.0 within 1e-6: the documented
\* weights do, every constructed scorer holds weights that do, and
\* constructing with any other weight set fails with ConfigurationError and
\* produces no score.
C11_WeightsSumToOne ==
    /\ WeightsConform(ToMillionths(RiskFactorWeights))
    /\ scorer.constructed =>
          IF WeightsConform(weightsIn)
          THEN /\ scorer.status = "ok"
               /\ WeightsConform(scorer.weights)
          ELSE /\ scorer.status = "ConfigurationError"
               /\ "score" \notin DOMAIN scorer

C11_Witness ==
    /\ scorer.constructed
    /\ WeightSum(Factors, weightsIn) = 1000002
    /\ scorer.status = "ConfigurationError"

\* C12: the global risk level the dashboard shows is never lower than the
\* level of any region it shows (it is the maximum of the region levels).
C12_GlobalLevelIsMax ==
    (dashMounted /\ ~dashLoading) =>
        \A i \in 1..Len(metrics.riskByRegion) :
            LevelRank(GlobalLevel) >=
                LevelRank(DashboardGetRiskLevel(metrics.riskByRegion[i].risk))

\* C13: a finished risk request that was answered (with profiles or with an
\* error) shows exactly one profile per distinct requested region, in the
\* order requested, and no region that was not requested.
C13_OneProfilePerRegion ==
    \A c \in RiskIds :
        (riskCalls[c].pc = "done" /\ riskCalls[c].resP # "null")
        => RegionsOf(riskCalls[c].wrote) = Dedupe(riskCalls[c].regions)

\* the request has a raw score outside [0,1] or names an unknown region
BadRequest ==
    \/ \E i \in 1..Len(reqRegions) : reqRegions[i] \notin RegionSet
    \/ \E r \in DOMAIN reqRaw : \E f \in FactorSet :
          reqRaw[r][f] < 0 \/ reqRaw[r][f] > 10

\* C14: scoring a request with a raw factor score outside [0,1] or with an
\* unknown region fails with ValidationError and returns no profile.
C14_ValidationError ==
    (assessment.assessed /\ BadRequest)
    => /\ assessment.result.status = "ValidationError"
       /\ "profiles" \notin DOMAIN assessment.result

C14_Witness ==
    /\ assessment.assessed
    /\ \A i \in 1..Len(reqRegions) : reqRegions[i] \in RegionSet
    /\ reqRegions # <<>>
    /\ \E r \in DOMAIN reqRaw : reqRaw[r]["trade_relations"] = -1
    /\ \A r \in DOMAIN reqRaw : \A f \in FactorSet : reqRaw[r][f] <= 10
    /\ assessment.result.status = "ValidationError"

\* the number of items whose sentiment satisfies the claimed rule of class c
ClaimedClass(s) ==
    IF s > 300 THEN "positive" ELSE IF s < -300 THEN "negative" ELSE "neutral"
ClaimedCount(c) ==
    Cardinality({i \in 1..Len(items) : ClaimedClass(items[i].sentiment) = c})

\* C15: an item is positive iff its sentiment is above 0.3, negative iff
\* below -0.3 and neutral otherwise (0.3 and -0.3 are neutral); colour and
\* icon agree on it; the shares count these classes and, for a non-empty
\* input, add up to 1.
C15_SentimentPartition ==
    /\ \A i \in 1..Len(items) :
          LET s == items[i].sentiment
          IN /\ SentimentClass(s) = ClaimedClass(s)
             /\ (getSentimentIcon(s) = "CheckCircle") = (SentimentClass(s) = "positive")
             /\ (getSentimentIcon(s) = "AlertTriangle") = (SentimentClass(s) = "negative")
    /\ (aggregate.done /\ items # <<>>) =>
          LET a == aggregate.value
          IN /\ a.positive = ClaimedCount("positive")
             /\ a.negative = ClaimedCount("negative")
             /\ a.neutral = ClaimedCount("neutral")
             /\ a.of = Len(items)
             /\ a.positive + a.negative + a.neutral = a.of

C15_Witness ==
    /\ aggregate.done
    /\ items = <<[sentiment |-> 300], [sentiment |-> -300], [sentiment |-> 301]>>
    /\ aggregate.value.neutral = 2
    /\ aggregate.value.positive = 1

\* C16: the aggregate of an empty input has shares 0 and mean 0.
C16_EmptyInput ==
    (aggregate.done /\ items = <<>>) =>
        /\ aggregate.value.positive = 0
        /\ aggregate.value.negative = 0
        /\ aggregate.value.neutral = 0
        /\ aggregate.value.meanSum = 0

C16_Witness == aggregate.done /\ items = <<>> /\ aggregate.value = EmptyAggregate

\* C17: the aggregate of a reordering of the items equals the aggregate of
\* the items.
C17_OrderInvariant ==
    (aggregate.done /\ reordered.done) => reordered.value = aggregate.value

C17_Witness ==
    /\ aggregate.done /\ reordered.done
    /\ Len(items) = 3
    /\ reordered.items # items
    /\ reordered.items[1] = items[3]

\* C18: the recommendation of a sector is Monitor Closely iff impact > 0.7,
\* Watch iff 0.4 < impact <= 0.7 and Stable otherwise; its colour and the
\* impact level and colour follow the same boundaries.
C18_Recommendation ==
    impactShown.rendered =>
        /\ (impactShown.recommendation = "Monitor Closely") = (impact > 700)
        /\ (impactShown.recommendation = "Watch for Changes")
              = (impact > 400 /\ impact <= 700)
        /\ (impactShown.recommendation = "Stable") = (impact <= 400)
        /\ (impactShown.level = "High") = (impact > 700)
        /\ (impactShown.level = "Low") = (impact <= 400)
        /\ impactShown.recommendationColor = impactShown.color
        /\ (impactShown.color = "text-danger-600") = (impact > 700)
        /\ (impactShown.color = "text-success-600") = (impact <= 400)

C18_Witness ==
    /\ impactShown.rendered
    /\ impact = 700
    /\ impactShown.recommendation = "Watch for Changes"

\* C19: a request of exactly one sector is scored without error and its
\* volume percentile is 1.0 whatever its volume.
C19_SingleSectorPercentile ==
    (sectorResult.scored /\ Len(sectorVolumes) = 1)
    => /\ sectorResult.status = "ok"
       /\ sectorResult.percentiles = <<1000>>

C19_Witness ==
    /\ sectorResult.scored
    /\ sectorVolumes = <<650>>
    /\ sectorResult.percentiles[1] = 1000

\* C20: on two or more snapshots the trend is stable iff the last move is
\* smaller than the threshold, else increasing iff the latest score is the
\* higher one and decreasing iff it is the lower one.
C20_TrendLabels ==
    (trend # "none" /\ Len(snapshots) >= 2) =>
        LET latest == snapshots[Len(snapshots)]
            previous == snapshots[Len(snapshots) - 1]
            small == (latest - previous < trendThreshold)
                     /\ (previous - latest < trendThreshold)
        IN /\ trend \in {"stable", "increasing", "decreasing"}
           /\ (trend = "stable") = small
           /\ (trend = "increasing") = (~small /\ latest > previous)
           /\ (trend = "decreasing") = (~small /\ latest < previous)
           /\ (getTrendIcon(trend) = "gray dot") = small
           /\ (getTrendIcon(trend) = "trending-up danger")
                 = (~small /\ latest > previous)

C20_Witness ==
    /\ trend = "increasing"
    /\ trendThreshold = DefaultTrendThreshold
    /\ Len(snapshots) = 2
    /\ snapshots[2] - snapshots[1] = DefaultTrendThreshold

\* C21: a history of one snapshot is classified stable, and so is a history
\* that repeats one snapshot; the classifier never fails on either.
C21_ShortOrConstantHistory ==
    (trend # "none"
       /\ \A i \in 1..Len(snapshots) : snapshots[i] = snapshots[1])
    => trend = "stable"

C21_Witness ==
    /\ trend = "stable"
    /\ Len(snapshots) = 1

\* C23: a sector is listed under Stable Sectors iff its recommendation is
\* Stable, and under High Impact Sectors iff it is Monitor Closely.
C23_ListsFollowRecommendation ==
    impactShown.rendered =>
        /\ impactShown.stableListed = (impactShown.recommendation = "Stable")
        /\ impactShown.highImpactListed
              = (impactShown.recommendation = "Monitor Closely")

\* C24: once every fetchData call that was started has finished, the news and
\* market data on display are the ones written by the call started last.
C24_NoStaleOverwrite ==
    LET started == {c \in FetchIds : fetches[c].pc # "idle"}
        last == CHOOSE c \in started : \A d \in started : d <= c
    IN (started # {} /\ \A c \in started : fetches[c].pc = "done")
       => /\ news = fetches[last].wrote.news
          /\ marketData = fetches[last].wrote.marketData

\* C25: loading is true whenever a fetchData or generateAnalysis call of the
\* page is still in flight.
C25_LoadingWhileInFlight ==
    (\/ \E c \in FetchIds : fetches[c].pc = "awaiting"
     \/ \E g \in GenIds : analyses[g].pc = "awaiting")
    => loading

\* the number of displayed regions to which getRiskLevel gives level l
LevelCount(l) ==
    Cardinality({i \in 1..Len(riskData) : getRiskLevel(riskData[i].risk) = l})

\* C30: the three counts of the Risk Summary add up to the number of regions
\* displayed, and each count is the number of regions to which getRiskLevel
\* gives that level.
C30_SummaryPartition ==
    LET s == RiskSummary(riskData)
    IN /\ s.low + s.medium + s.high = Len(riskData)
       /\ s.low = LevelCount("Low")
       /\ s.medium = LevelCount("Medium")
       /\ s.high = LevelCount("High")

C30_Witness ==
    /\ riskData = MockRiskData
    /\ RiskSummary(riskData) = [low |-> 2, medium |-> 3, high |-> 1]

\* C26: a request is sent with the header Bearer <token> iff a token is
\* stored when it is sent; a 401 response removes the stored token and the
\* request is still rejected, so a request sent afterwards has no header
\* until a token is stored again.
C26_AuthHeader ==
    [][\A i \in ApiIds :
          /\ (apiCalls[i].pc = "idle" /\ apiCalls'[i].pc = "sent")
             => IF authToken \in Tokens
                THEN apiCalls'[i].authorization = Bearer(authToken)
                ELSE apiCalls'[i].authorization = NoHeader
          /\ (apiCalls[i].pc = "sent" /\ apiCalls'[i].status = "401")
             => /\ authToken' = NoToken
                /\ apiCalls'[i].pc = "rejected"]_vars

C26_Witness ==
    \E i, j \in ApiIds :
        /\ i < j
        /\ apiCalls[i].status = "401"
        /\ apiCalls[i].authorization.scheme = "Bearer"
        /\ apiCalls[j].pc = "sent"
        /\ apiCalls[j].authorization = NoHeader
        /\ authToken = NoToken

\* C27: the page is always on a path registered in the App router.
C27_RedirectIsARoute == location \in Routes

\* C22: an exported file has exactly the fields summary, keyInsights,
\* recommendations, riskLevel and generatedAt, and parsing it back gives the
\* value that was exported, field for field.
C22_ExportRoundTrip ==
    /\ exportFile.present => DOMAIN exportFile.text = AnalysisFields
    /\ imported.present =>
          /\ DOMAIN imported.value = DOMAIN exportSource
          /\ \A k \in DOMAIN exportSource :
                imported.value[k] = exportSource[k]

\* the elements of a list
Elements(list) == {list[i] : i \in 1..Len(list)}

\* list holds no entry twice and only entries of all
Selection(list, all) ==
    /\ Cardinality(Elements(list)) = Len(list)
    /\ Elements(list) \subseteq Elements(all)

\* old becomes new by adding exactly one entry or removing exactly one
OneEntryToggled(old, new) ==
    \/ \E x \in Elements(new) \ Elements(old) :
          new = Append(old, x)
    \/ \E x \in Elements(old) \ Elements(new) :
          /\ Elements(new) = Elements(old) \ {x}
          /\ Len(new) = Len(old) - 1

\* C28: the selected regions and sectors are always duplicate-free
\* selections from the six-element lists, and a checkbox click adds exactly
\* the entry checked or removes exactly the entry unchecked and leaves the
\* other list as it was.
C28_SelectionToggles ==
    /\ [](Selection(settings.regions, regions)
          /\ Selection(settings.sectors, sectors))
    /\ [][settingsVisits' = settingsVisits =>
            /\ settings'.regions # settings.regions =>
                  /\ OneEntryToggled(settings.regions, settings'.regions)
                  /\ settings'.sectors = settings.sectors
            /\ settings'.sectors # settings.sectors =>
                  /\ OneEntryToggled(settings.sectors, settings'.sectors)
                  /\ settings'.regions = settings.regions]_vars

C28_Witness ==
    settings.regions = <<"North America", "Asia-Pacific", "Middle East">>

\* C29: a load of the Settings page after a Save starts from the settings
\* that were saved, and only Save changes the stored value.
C29_SavedSettingsSurvive ==
    [][/\ (settingsVisits' # settingsVisits /\ stored.present)
             => settings' = JSONParse(stored.text)
       /\ (stored' # stored)
             => (settings' = settings
                 /\ stored'.text = JSONStringify(settings))]_vars
====
